---- MODULE Spec2Model ----
(***************************************************************************)
(* Scheduling and booking engine of src/app.py.                            *)
(*                                                                         *)
(* Representation of the textual forms:                                    *)
(*   "HH:MM"        a pair <<h, m>>                                        *)
(*   "HH:MM-HH:MM"  a pair <<start, end>> of such pairs                    *)
(*   "YYYY-MM-DD"   a day number; day 0 is a Monday, weekday = day % 7     *)
(*   a date phrase  a record [form, arg, dp]: the date words and the        *)
(*                  daypart word embedded in the phrase ("none" if absent) *)
(*   a raw time     a record [shape, h, m, ampm]: what is left of the       *)
(*                  string once dots and spaces are normalised             *)
(* None is NoDate for dates, NoTime for times, NoWindow for dayparts.      *)
(***************************************************************************)
EXTENDS Integers, Sequences, FiniteSets, TLC

VARIABLES
    calFile,      \* calendar.json, its "appointments" mapping: date -> list of ranges
    calCache,     \* st.cache_data entry of load_calendar_cached (NoCache when cleared)
    bookFile,     \* bookings.json, its "bookings" list
    bookCache,    \* st.cache_data entry of load_bookings_cached
    now,          \* the clock in salon time: [day, min]
    pc,           \* per session: position inside the running tool call
    loc,          \* per session: locals of the running book_appointment call
    result,       \* the value a tool call has just returned, until the caller takes it
    prev,         \* history: the previous book_appointment return, if a Confirmation
    confirmed,    \* history: the bookings for which a Confirmation was returned
    admitted,     \* number of bookings that passed the re-check so far
    io,           \* which file operations currently succeed: [calRead, calWrite, bookRead, bookWrite]
    probe         \* the last direct application of an engine function: [fn, arg, out]

vars == <<calFile, calCache, bookFile, bookCache, now, pc, loc, result, prev, confirmed, admitted,
          io, probe>>

-----------------------------------------------------------------------------
(* Bounds *)

MaxBookings == 2
MaxNowDay == 1

Sessions == {"s1", "s2"}

-----------------------------------------------------------------------------
(* None values *)

NoDate == 0 - 1
NoTime == <<>>
NoWindow == <<>>
NoCache == [valid |-> FALSE, data |-> <<>>]
NoService == "none"

-----------------------------------------------------------------------------
(* Configuration files (read-only for the engine) *)

WEEKDAY_NAMES == <<"Mon", "Tue", "Wed", "Thu", "Fri", "Sat", "Sun">>

DAYPARTS ==
    [morning   |-> <<<<0, 0>>, <<11, 59>>>>,
     afternoon |-> <<<<12, 0>>, <<16, 59>>>>,
     evening   |-> <<<<17, 0>>, <<20, 59>>>>,
     night     |-> <<<<21, 0>>, <<23, 59>>>>]

\* working_hours.json: slot_interval_minutes
slot_interval_minutes == 15

\* working_hours.json: weekly_hours. Sun is present and empty; Thu and Fri are absent.
weekly_hours ==
    [Mon |-> << <<<<10, 0>>, <<11, 15>>>> >>,
     Tue |-> << <<<<10, 0>>, <<11, 15>>>> >>,
     Wed |-> << <<<<11, 30>>, <<12, 15>>>> >>,
     Sat |-> << <<<<10, 0>>, <<14, 0>>>> >>,
     Sun |-> << >>]

\* working_hours.json: exceptions. Day 2 (a Wed) is closed by an empty override;
\* day 8 (a Tue) has a split shift, listed out of order; day 9 (a Wed) has a
\* range string without a "-" next to a good one; day 13 (a Sun) is open;
\* day 14 (a Mon) has two ranges that overlap.
exceptions ==
    (2 :> << >>)
    @@ (8 :> << <<<<14, 0>>, <<16, 0>>>>, <<<<9, 0>>, <<11, 0>>>> >>)
    @@ (9 :> << << <<10, 0>> >>, <<<<11, 30>>, <<12, 15>>>> >>)
    @@ (13 :> << <<<<12, 0>>, <<13, 0>>>> >>)
    @@ (14 :> << <<<<10, 0>>, <<11, 0>>>>, <<<<10, 30>>, <<11, 30>>>> >>)

\* services.json: name -> duration ("void" is an entry whose duration is 0)
services == [cut |-> 30, fade |-> 45, void |-> 0]

-----------------------------------------------------------------------------
(* Time helpers *)

_time_to_minutes(hhmm) == hhmm[1] * 60 + hhmm[2]

_minutes_to_time(m) == <<m \div 60, m % 60>>

WeekdayOf(day) == day % 7

extract_daypart(s) ==
    IF s.dp # "none"
      THEN [clean |-> [form |-> s.form, arg |-> s.arg, dp |-> "none"], rng |-> DAYPARTS[s.dp]]
      ELSE [clean |-> s, rng |-> NoWindow]

\* the phrase is the empty string
IsEmptyPhrase(s) == s.form = "empty" /\ s.dp = "none"

TodayPhrase == [form |-> "today", arg |-> 0, dp |-> "none"]

\* a distance that skips the anchor day when the weekdays match
WeekdayDelta_skip_today(day_idx, anchor_weekday) ==
    IF (day_idx - anchor_weekday) % 7 = 0 THEN 7 ELSE (day_idx - anchor_weekday) % 7

\* line 346: days from the anchor to a bare weekday
WeekdayDelta(day_idx, anchor_weekday) == (day_idx - anchor_weekday) % 7

\* a distance that keeps 0 when the weekdays match
NextWeekdayDelta_plain(day_idx, anchor_weekday) == (day_idx - anchor_weekday) % 7

\* a distance of eight days when the weekdays match
NextWeekdayDelta_eight(day_idx, anchor_weekday) ==
    IF (day_idx - anchor_weekday) % 7 = 0 THEN 8 ELSE (day_idx - anchor_weekday) % 7

\* line 352: days from the anchor to "next" weekday
NextWeekdayDelta(day_idx, anchor_weekday) ==
    LET delta == (day_idx - anchor_weekday) % 7
    IN  IF delta = 0 THEN 7 ELSE delta

parse_natural_date(phrase, anchor) ==
    CASE phrase.dp # "none"        -> NoDate   \* no form matches with a daypart word left in
      [] phrase.form = "empty"     -> NoDate
      [] phrase.form = "iso"       -> phrase.arg
      [] phrase.form = "mmdd"      -> phrase.arg
      [] phrase.form = "today"     -> anchor.day
      [] phrase.form = "tomorrow"  -> anchor.day + 1
      [] phrase.form = "weekday"   -> anchor.day + WeekdayDelta(phrase.arg, WeekdayOf(anchor.day))
      [] phrase.form = "next"      -> anchor.day + NextWeekdayDelta(phrase.arg, WeekdayOf(anchor.day))
      [] OTHER                     -> NoDate

\* a generator that only asks the start to lie before the end of the range
RECURSIVE SlotsFrom_start_only(_, _, _, _)
SlotsFrom_start_only(t, end, slot_interval, service_min) ==
    IF t < end
      THEN <<_minutes_to_time(t)>>
             \o SlotsFrom_start_only(t + slot_interval, end, slot_interval, service_min)
      ELSE <<>>

\* a generator that leaves out the start whose service ends exactly at the end of the range
RECURSIVE SlotsFrom_strict(_, _, _, _)
SlotsFrom_strict(t, end, slot_interval, service_min) ==
    IF t + service_min < end
      THEN <<_minutes_to_time(t)>>
             \o SlotsFrom_strict(t + slot_interval, end, slot_interval, service_min)
      ELSE <<>>

\* lines 373-376: the starts of one range
RECURSIVE SlotsFrom(_, _, _, _)
SlotsFrom(t, end, slot_interval, service_min) ==
    IF t + service_min <= end
      THEN <<_minutes_to_time(t)>> \o SlotsFrom(t + slot_interval, end, slot_interval, service_min)
      ELSE <<>>

RECURSIVE _expand_ranges_to_slots(_, _, _)
_expand_ranges_to_slots(ranges, slot_interval, service_min) ==
    IF ranges = <<>> THEN <<>>
    ELSE LET r == Head(ranges)
         IN  (IF Len(r) = 2
                THEN SlotsFrom(_time_to_minutes(r[1]), _time_to_minutes(r[2]),
                               slot_interval, service_min)
                ELSE <<>>)
             \o _expand_ranges_to_slots(Tail(ranges), slot_interval, service_min)

\* a conflict test that looks only for an endpoint strictly inside the booked range
Conflict_endpoints(start, end, r) ==
    /\ Len(r) = 2
    /\ \/ _time_to_minutes(r[1]) < start /\ start < _time_to_minutes(r[2])
       \/ _time_to_minutes(r[1]) < end /\ end < _time_to_minutes(r[2])

\* a conflict test on closed intervals: touching ranges conflict
Conflict_closed(start, end, r) ==
    /\ Len(r) = 2
    /\ start <= _time_to_minutes(r[2])
    /\ end >= _time_to_minutes(r[1])

\* the half-open test of lines 392 and 500
Conflict(start, end, r) ==
    /\ Len(r) = 2
    /\ start < _time_to_minutes(r[2])
    /\ end > _time_to_minutes(r[1])

HasConflict(start, end, taken_ranges) ==
    \E i \in 1..Len(taken_ranges) : Conflict(start, end, taken_ranges[i])

_subtract_appointments(slots, taken_ranges, service_min) ==
    LET Free(s) == ~HasConflict(_time_to_minutes(s), _time_to_minutes(s) + service_min, taken_ranges)
    IN  SelectSeq(slots, Free)

_get_service_minutes(name) ==
    IF name \in DOMAIN services THEN services[name] ELSE 30

\* a normaliser that adds 12 to every hour given with pm, 12 included
_normalize_time_to_hhmm_pm_always(s) ==
    IF s.shape \notin {"digits", "hm"} THEN NoTime
    ELSE LET h0 == s.h
             m  == IF s.shape = "digits" THEN 0 ELSE s.m
             h  == CASE s.ampm = "am" -> (IF h0 = 12 THEN 0 ELSE h0)
                     [] s.ampm = "pm" -> h0 + 12
                     [] OTHER         -> h0
         IN  IF 0 <= h /\ h <= 23 /\ 0 <= m /\ m <= 59 THEN <<h, m>> ELSE NoTime

\* a normaliser that leaves 12am at hour 12
_normalize_time_to_hhmm_am_keeps_12(s) ==
    IF s.shape \notin {"digits", "hm"} THEN NoTime
    ELSE LET h0 == s.h
             m  == IF s.shape = "digits" THEN 0 ELSE s.m
             h  == CASE s.ampm = "pm" -> (IF h0 # 12 THEN h0 + 12 ELSE h0)
                     [] OTHER         -> h0
         IN  IF 0 <= h /\ h <= 23 /\ 0 <= m /\ m <= 59 THEN <<h, m>> ELSE NoTime

_normalize_time_to_hhmm(s) ==
    IF s.shape \notin {"digits", "hm"} THEN NoTime
    ELSE LET h0 == s.h
             m  == IF s.shape = "digits" THEN 0 ELSE s.m
             h  == CASE s.ampm = "am" -> (IF h0 = 12 THEN 0 ELSE h0)
                     [] s.ampm = "pm" -> (IF h0 # 12 THEN h0 + 12 ELSE h0)
                     [] OTHER         -> h0
         IN  IF 0 <= h /\ h <= 23 /\ 0 <= m /\ m <= 59 THEN <<h, m>> ELSE NoTime

\* no floor: the second argument as it is
Max_second(a, b) == b

Max(a, b) == IF a >= b THEN a ELSE b

Prefix(seq, n) == SubSeq(seq, 1, IF n < Len(seq) THEN n ELSE Len(seq))

InSeq(x, seq) == \E i \in 1..Len(seq) : seq[i] = x

-----------------------------------------------------------------------------
(* Calendar store *)

appts_get(appts, date_str) == IF date_str \in DOMAIN appts THEN appts[date_str] ELSE <<>>

\* load_calendar: served from the cache when it holds an entry, else from the
\* file; a read that raises is swallowed and gives the empty calendar (lines 258-259)
load_calendar ==
    IF calCache.valid THEN calCache.data
    ELSE IF io.calRead THEN calFile
    ELSE <<>>

\* load_bookings: as load_calendar, for the log (lines 265-266)
load_bookings ==
    IF bookCache.valid THEN bookCache.data
    ELSE IF io.bookRead THEN bookFile
    ELSE <<>>

Cached(data) == [valid |-> TRUE, data |-> data]

\* the cache entries after a load: a read that raised stores nothing
CalCacheAfterLoad == IF calCache.valid \/ ~io.calRead THEN calCache ELSE Cached(calFile)

BookCacheAfterLoad == IF bookCache.valid \/ ~io.bookRead THEN bookCache ELSE Cached(bookFile)

\* the load of the calendar takes the except branch of line 258
CalReadFails == ~calCache.valid /\ ~io.calRead

\* the list as it is after the append, neither deduplicated nor sorted
SortedDedup_keep_order(lst) == {lst}

\* line 520: the date's list with duplicates removed, ordered by start time.
\* The order of list(set(..)) is arbitrary, so ranges with equal starts may
\* come out in either order.
SortedDedup(lst) ==
    LET S == {lst[i] : i \in 1..Len(lst)}
        n == Cardinality(S)
    IN  {q \in [1..n -> S] :
            /\ \A i, j \in 1..n : i # j => q[i] # q[j]
            /\ \A i, j \in 1..n : i < j => _time_to_minutes(q[i][1]) <= _time_to_minutes(q[j][1])}

-----------------------------------------------------------------------------
(* Availability engine *)

\* a lookup in which an empty exception list falls back to the weekly hours
RangesFor_or_weekly(date_str) ==
    LET weekday == WEEKDAY_NAMES[WeekdayOf(date_str) + 1]
        weekly == IF weekday \in DOMAIN weekly_hours THEN weekly_hours[weekday] ELSE <<>>
    IN  IF date_str \in DOMAIN exceptions /\ exceptions[date_str] # <<>>
          THEN exceptions[date_str]
          ELSE weekly

\* lines 634-640: the ranges that apply to a date
RangesFor(date_str) ==
    IF date_str \in DOMAIN exceptions
      THEN exceptions[date_str]
      ELSE LET weekday == WEEKDAY_NAMES[WeekdayOf(date_str) + 1]
           IN  IF weekday \in DOMAIN weekly_hours THEN weekly_hours[weekday] ELSE <<>>

\* lines 624-625: the daypart passed explicitly wins over the one in the phrase
EffectiveDaypart(embedded_daypart, daypart) ==
    IF embedded_daypart # NoWindow /\ daypart = NoWindow THEN embedded_daypart ELSE daypart

\* a daypart filter that looks at the start only
InDaypart_start_only(s, service_min, daypart) ==
    /\ _time_to_minutes(s) >= _time_to_minutes(daypart[1])
    /\ _time_to_minutes(s) <= _time_to_minutes(daypart[2])

\* lines 658-659: the daypart filter
InDaypart(s, service_min, daypart) ==
    /\ _time_to_minutes(s) >= _time_to_minutes(daypart[1])
    /\ _time_to_minutes(s) + service_min <= _time_to_minutes(daypart[2])

\* a today filter that drops every start that has passed
NotPast_start_only(s, service_min, now_m) == _time_to_minutes(s) > now_m

\* line 666: the today filter
NotPast(s, service_min, now_m) == _time_to_minutes(s) + service_min > now_m

\* check_availability evaluated at clock value anchor against the loaded calendar cal.
\* free_slots is the local of that name at line 668 (the list before truncation).
\* kind is "error" (line 630), "closed" (line 643) or "ok" (line 668).
check_availability(date_phrase, service_name, limit, daypart, anchor, cal) ==
    LET ex        == extract_daypart(date_phrase)
        dp        == EffectiveDaypart(ex.rng, daypart)
        cleaned   == IF IsEmptyPhrase(ex.clean) THEN TodayPhrase ELSE ex.clean
        date_dt   == parse_natural_date(cleaned, anchor)
        ranges    == RangesFor(date_dt)
        service_min == _get_service_minutes(service_name)
        all_slots == _expand_ranges_to_slots(ranges, slot_interval_minutes, service_min)
        taken_ranges == appts_get(cal, date_dt)
        free0     == _subtract_appointments(all_slots, taken_ranges, service_min)
        InPart(s) == InDaypart(s, service_min, dp)
        free1     == IF dp # NoWindow THEN SelectSeq(free0, InPart) ELSE free0
        Future(s) == NotPast(s, service_min, anchor.min)
        free_slots == IF date_dt = anchor.day THEN SelectSeq(free1, Future) ELSE free1
    IN  IF date_dt = NoDate
          THEN [kind |-> "error", date |-> NoDate, available |-> <<>>, total_available |-> 0,
                free_slots |-> <<>>]
        ELSE IF ranges = <<>>
          THEN [kind |-> "closed", date |-> date_dt, available |-> <<>>, total_available |-> 0,
                free_slots |-> <<>>]
        ELSE [kind |-> "ok", date |-> date_dt,
              available |-> Prefix(free_slots, Max(1, limit)),
              total_available |-> Len(free_slots),
              free_slots |-> free_slots]

\* a lookup that takes the weekly hours when the override is empty
HoursRangesFor_or_weekly(date_str) ==
    LET weekday == WEEKDAY_NAMES[WeekdayOf(date_str) + 1]
        weekly == IF weekday \in DOMAIN weekly_hours THEN weekly_hours[weekday] ELSE <<>>
    IN  IF date_str \in DOMAIN exceptions /\ exceptions[date_str] # <<>>
          THEN exceptions[date_str]
          ELSE weekly

\* line 553: the ranges get_hours reports for a date
HoursRangesFor(date_str) ==
    LET weekday == WEEKDAY_NAMES[WeekdayOf(date_str) + 1]
        weekly == IF weekday \in DOMAIN weekly_hours THEN weekly_hours[weekday] ELSE <<>>
    IN  IF date_str \in DOMAIN exceptions THEN exceptions[date_str] ELSE weekly

\* lines 564-565: the first of the starts and the last of the ends, ordered by minutes
EarliestOf(times) ==
    CHOOSE t \in times : \A u \in times : _time_to_minutes(t) <= _time_to_minutes(u)

LatestOf(times) ==
    CHOOSE t \in times : \A u \in times : _time_to_minutes(t) >= _time_to_minutes(u)

\* get_hours evaluated at clock value anchor. kind is "error" (line 546),
\* "closed" (line 555) or "open" (line 569). A range that does not split in
\* two raises inside the try of line 557, and the except of line 566 sets
\* both opening and closing to None.
get_hours(date_phrase, anchor) ==
    LET phrase  == IF IsEmptyPhrase(date_phrase) THEN TodayPhrase ELSE date_phrase
        date_dt == parse_natural_date(phrase, anchor)
        ranges  == HoursRangesFor(date_dt)
        raised  == \E i \in 1..Len(ranges) : Len(ranges[i]) # 2
        starts  == {ranges[i][1] : i \in 1..Len(ranges)}
        ends    == {ranges[i][2] : i \in 1..Len(ranges)}
    IN  IF date_dt = NoDate
          THEN [kind |-> "error", date |-> NoDate, ranges |-> <<>>,
                opening |-> NoTime, closing |-> NoTime, closed |-> FALSE]
        ELSE IF ranges = <<>>
          THEN [kind |-> "closed", date |-> date_dt, ranges |-> <<>>,
                opening |-> NoTime, closing |-> NoTime, closed |-> TRUE]
        ELSE [kind |-> "open", date |-> date_dt, ranges |-> ranges,
              opening |-> IF raised THEN NoTime ELSE EarliestOf(starts),
              closing |-> IF raised THEN NoTime ELSE LatestOf(ends),
              closed |-> FALSE]

-----------------------------------------------------------------------------
(* Inputs of the tool calls *)

Phrase(form, arg, dp) == [form |-> form, arg |-> arg, dp |-> dp]

\* date arguments: "", "asdf", "today", "tomorrow", "sun", an ISO date that is
\* open (day 0), closed by an exception (day 2) or without weekly hours (day 3),
\* "morning", "today afternoon", "tonight"
Phrases ==
    {Phrase("empty", 0, "none"), Phrase("junk", 0, "none"),
     Phrase("today", 0, "none"), Phrase("tomorrow", 0, "none"),
     Phrase("weekday", 6, "none"),
     Phrase("iso", 0, "none"), Phrase("iso", 2, "none"), Phrase("iso", 3, "none"),
     Phrase("empty", 0, "morning"), Phrase("today", 0, "afternoon"),
     Phrase("junk", 0, "night")}

Raw(shape, h, m, ampm) == [shape |-> shape, h |-> h, m |-> m, ampm |-> ampm]

\* start times: "10:00", "10:15am", "10.30", "25:00", "ten"
RawTimes ==
    {Raw("hm", 10, 0, "none"), Raw("hm", 10, 15, "am"), Raw("hm", 10, 30, "none"),
     Raw("hm", 25, 0, "none"), Raw("malformed", 0, 0, "none")}

ServiceNames == {"cut", "fade"}

\* the arguments of the calls that race: an open date, a closed one and an
\* unparsed phrase; two overlapping starts and an out-of-range one
RacePhrases == {Phrase("iso", 0, "none"), Phrase("iso", 2, "none"), Phrase("junk", 0, "none")}

RaceTimes == {Raw("hm", 10, 0, "none"), Raw("hm", 10, 15, "am"), Raw("hm", 25, 0, "none")}

RaceServices == {"cut"}

\* the arguments of calls that race on two open dates (a Monday and the
\* Tuesday after it), each for the same start
TwoDatePhrases == {Phrase("iso", 0, "none"), Phrase("iso", 1, "none")}

TwoDateTimes == {Raw("hm", 10, 0, "none")}

\* the services of the calls made while files may fail: a normal one and the
\* one configured with duration 0
FaultServices == {"cut", "void"}

Limits == {0, 8}

\* date arguments of get_hours: "", "asdf", an open date and a closed one
ToolHoursPhrases ==
    {Phrase("empty", 0, "none"), Phrase("junk", 0, "none"), Phrase("iso", 0, "none"),
     Phrase("iso", 2, "none")}

DaypartArgs == {NoWindow, DAYPARTS["afternoon"]}

NowMins == {9 * 60, 10 * 60 + 40}

-----------------------------------------------------------------------------
(* State *)

\* locals of a running book_appointment call; argParsed, free and wrote are
\* history that the call's result reports (see NoResult)
NoLoc == [date |-> NoDate, start |-> NoTime, service |-> NoService, duration |-> 0,
          cal |-> <<>>, data |-> <<>>, argParsed |-> FALSE, free |-> <<>>, wrote |-> FALSE,
          readFailed |-> FALSE]

\* The dictionaries returned by the tools. kind names the return statement; for
\* book_appointment: "BadTimeFormat" line 690, "Closed" line 695,
\* "SlotUnavailable" line 699, "JustTaken" line 712, "Confirmation" line 724,
\* and the exceptions that leave the call: "SaveFailed" raised at line 274,
\* "RecordFailed" raised by the open of line 469;
\* for check_availability: "error" line 630, "closed" line 643, "ok" line 668.
\* The fields after total_available are history of the call that returned:
\*   argParsed  the date argument is a phrase the date normaliser parses
\*   resolved   the date the re-check resolved the date argument to
\*   checked    the kind of the re-check's result ("none" if it did not run)
\*   free       the available list of the re-check
\*   altFresh   alternatives equal the availability of the date computed from
\*              the calendar file as it is on return
\*   wrote      a step of the call changed calendar.json or bookings.json
\*   readFailed a load of the calendar made by the call took the except branch
\*   repeat     the previous book_appointment return was a Confirmation of the
\*              same (date, start, service); sameStored: and the date's list in
\*              calendar.json is the one stored then
NoResult ==
    [tool |-> "none", kind |-> "none",
     date |-> NoDate, start |-> NoTime, service |-> NoService,
     hasAlt |-> FALSE, alternatives |-> <<>>, available |-> <<>>, total_available |-> 0,
     argParsed |-> FALSE, resolved |-> NoDate, checked |-> "none", free |-> <<>>,
     altFresh |-> FALSE, wrote |-> FALSE, repeat |-> FALSE, sameStored |-> FALSE,
     readFailed |-> FALSE, hours |-> <<>>]

NoPrev == [key |-> <<>>, stored |-> <<>>]

\* every file operation succeeds
AllOk == [calRead |-> TRUE, calWrite |-> TRUE, bookRead |-> TRUE, bookWrite |-> TRUE]

NoProbe == [fn |-> "none", arg |-> <<>>, out |-> <<>>]

\* A calendar the engine can have written: per date, ranges of bookable
\* slots that do not overlap, ordered by start.
InitCalendars ==
    {<<>>,
     (1 :> << <<<<10, 15>>, <<11, 0>>>> >>)}

Init ==
    /\ calFile \in InitCalendars
    /\ calCache = NoCache
    /\ bookFile = <<>>
    /\ bookCache = NoCache
    /\ now = [day |-> 0, min |-> 9 * 60]
    /\ pc = [p \in Sessions |-> "idle"]
    /\ loc = [p \in Sessions |-> NoLoc]
    /\ result = NoResult
    /\ prev = NoPrev
    /\ confirmed = {}
    /\ admitted = 0
    /\ io = AllOk
    /\ probe = NoProbe

PrevAfter(kind, date, start, service, appts) ==
    IF kind = "Confirmation"
      THEN [key |-> <<date, start, service>>, stored |-> appts_get(appts, date)]
      ELSE NoPrev

IsoPhrase(date) == Phrase("iso", date, "none")

-----------------------------------------------------------------------------
(* book_appointment *)

\* a test that rejects only when nothing at all is free
NotAvailable_when_empty(start_time_norm, free_slots) == free_slots = <<>>

\* line 698: the requested start is not in the re-check's available list
NotAvailable(start_time_norm, free_slots) == ~InSeq(start_time_norm, free_slots)

\* line 702: the alternatives of a rejection
Alternatives(free_slots) == Prefix(free_slots, 10)

\* lines 684-706: normalise, re-check, and either reject or go on to _append_appointment
book_appointment(p, date_args, start_times, service_names) ==
    /\ result = NoResult
    /\ UNCHANGED <<io, probe>>
    /\ pc[p] = "idle"
    /\ \E date_arg \in date_args, start_time \in start_times, service_name \in service_names :
         LET cleaned_date == extract_daypart(date_arg).clean
             date_str == IF IsEmptyPhrase(cleaned_date) THEN date_arg ELSE cleaned_date
             start_time_norm == _normalize_time_to_hhmm(start_time)
             duration_min == _get_service_minutes(service_name)
             avail == check_availability(date_str, service_name, 10000, NoWindow, now, load_calendar)
             free_slots == avail.available
             argParsed == parse_natural_date(cleaned_date, now) # NoDate
             onFile == check_availability(date_str, service_name, 10000, NoWindow, now, calFile)
             readFailed == avail.kind = "ok" /\ CalReadFails
             Reject(kind, date, hasAlt, alternatives, checked) ==
                 /\ result' =
                      [tool |-> "book_appointment", kind |-> kind,
                       date |-> date, start |-> start_time_norm, service |-> service_name,
                       hasAlt |-> hasAlt, alternatives |-> alternatives,
                       available |-> <<>>, total_available |-> 0,
                       argParsed |-> argParsed, resolved |-> onFile.date,
                       checked |-> checked,
                       free |-> IF checked = "none" THEN <<>> ELSE free_slots,
                       altFresh |-> alternatives = onFile.available, wrote |-> FALSE,
                       repeat |-> prev.key = <<date, start_time_norm, service_name>>,
                       sameStored |-> prev.stored = appts_get(calFile, date),
                       readFailed |-> (checked # "none" /\ readFailed), hours |-> <<>>]
                 /\ prev' = NoPrev
                 /\ UNCHANGED <<pc, loc, admitted>>
         IN  IF start_time_norm = NoTime
               THEN /\ Reject("BadTimeFormat", NoDate, FALSE, <<>>, "none")
                    /\ UNCHANGED calCache
             ELSE IF avail.kind = "closed"
               THEN /\ Reject("Closed", avail.date, FALSE, <<>>, avail.kind)
                    /\ UNCHANGED calCache
             ELSE IF NotAvailable(start_time_norm, free_slots)
               THEN /\ Reject("SlotUnavailable", avail.date, TRUE, Alternatives(free_slots),
                              avail.kind)
                    /\ calCache' = IF avail.kind = "ok" THEN CalCacheAfterLoad ELSE calCache
             ELSE /\ admitted < MaxBookings
                  /\ admitted' = admitted + 1
                  /\ pc' = [pc EXCEPT ![p] = "collision_check"]
                  /\ loc' = [loc EXCEPT ![p] =
                         [date |-> avail.date, start |-> start_time_norm,
                          service |-> service_name, duration |-> duration_min,
                          cal |-> <<>>, data |-> <<>>,
                          argParsed |-> argParsed, free |-> free_slots, wrote |-> FALSE,
                          readFailed |-> readFailed]]
                  /\ calCache' = IF avail.kind = "ok" THEN CalCacheAfterLoad ELSE calCache
                  /\ result' = NoResult
                  /\ UNCHANGED prev
    /\ UNCHANGED <<calFile, bookFile, bookCache, now, confirmed>>

\* the result of a call that went on to _append_appointment
LateResult(p, kind, hasAlt, alternatives, fresh) ==
    [tool |-> "book_appointment", kind |-> kind,
     date |-> loc[p].date, start |-> loc[p].start, service |-> loc[p].service,
     hasAlt |-> hasAlt, alternatives |-> alternatives,
     available |-> <<>>, total_available |-> 0,
     argParsed |-> loc[p].argParsed, resolved |-> loc[p].date, checked |-> "ok",
     free |-> loc[p].free,
     altFresh |-> alternatives = fresh, wrote |-> loc[p].wrote,
     repeat |-> prev.key = <<loc[p].date, loc[p].start, loc[p].service>>,
     sameStored |-> prev.stored = appts_get(calFile, loc[p].date),
     readFailed |-> loc[p].readFailed, hours |-> <<>>]

\* a collision check that adds the range to the file before it looks for a conflict
collision_check_after_write(p) ==
    /\ result = NoResult
    /\ UNCHANGED <<io, probe>>
    /\ pc[p] = "collision_check"
    /\ LET cal == load_calendar
           taken == appts_get(cal, loc[p].date)
           start_m == _time_to_minutes(loc[p].start)
           end_m == start_m + loc[p].duration
           new_range == <<loc[p].start, _minutes_to_time(end_m)>>
       IN  /\ calFile' = (loc[p].date :> Append(taken, new_range)) @@ cal
           /\ pc' = [pc EXCEPT ![p] = IF HasConflict(start_m, end_m, taken)
                                        THEN "just_taken" ELSE "append"]
    /\ loc' = [loc EXCEPT ![p].wrote = loc[p].wrote \/ calFile' # calFile]
    /\ calCache' = NoCache
    /\ result' = NoResult
    /\ UNCHANGED <<bookFile, bookCache, now, prev, confirmed, admitted>>

\* _append_appointment, lines 488-503: the collision check against a fresh read
collision_check(p) ==
    /\ result = NoResult
    /\ UNCHANGED <<io, probe>>
    /\ pc[p] = "collision_check"
    /\ LET taken == appts_get(load_calendar, loc[p].date)
           start_m == _time_to_minutes(loc[p].start)
           end_m == start_m + loc[p].duration
       IN  pc' = [pc EXCEPT ![p] = IF HasConflict(start_m, end_m, taken)
                                     THEN "just_taken" ELSE "append"]
    /\ loc' = [loc EXCEPT ![p].readFailed = loc[p].readFailed \/ CalReadFails]
    /\ calCache' = CalCacheAfterLoad
    /\ result' = NoResult
    /\ UNCHANGED <<calFile, bookFile, bookCache, now, prev, confirmed, admitted>>

\* _append_appointment, lines 505-520: load the calendar again, add the range, dedup and sort
append(p) ==
    /\ result = NoResult
    /\ UNCHANGED <<io, probe>>
    /\ pc[p] = "append"
    /\ LET cal == load_calendar
           end_hhmm == _minutes_to_time(_time_to_minutes(loc[p].start) + loc[p].duration)
           new_range == <<loc[p].start, end_hhmm>>
           old == appts_get(cal, loc[p].date)
           appended == IF InSeq(new_range, old) THEN old ELSE Append(old, new_range)
       IN  \E sorted \in SortedDedup(appended) :
              loc' = [loc EXCEPT ![p].cal = (loc[p].date :> sorted) @@ cal,
                                 ![p].readFailed = loc[p].readFailed \/ CalReadFails]
    /\ calCache' = CalCacheAfterLoad
    /\ pc' = [pc EXCEPT ![p] = "save_write"]
    /\ result' = NoResult
    /\ UNCHANGED <<calFile, bookFile, bookCache, now, prev, confirmed, admitted>>

\* a save whose failure is swallowed: the call goes on as if the file were written
save_write_swallow(p) ==
    /\ result = NoResult
    /\ UNCHANGED <<io, probe>>
    /\ pc[p] = "save_write"
    /\ calFile' = IF io.calWrite THEN loc[p].cal ELSE calFile
    /\ loc' = [loc EXCEPT ![p].wrote = loc[p].wrote \/ calFile' # calFile]
    /\ pc' = [pc EXCEPT ![p] = "save_clear"]
    /\ result' = NoResult
    /\ UNCHANGED <<calCache, bookFile, bookCache, now, prev, confirmed, admitted>>

\* _save_calendar, lines 270-271: the whole file is replaced
save_write(p) ==
    /\ result = NoResult
    /\ UNCHANGED <<io, probe>>
    /\ pc[p] = "save_write"
    /\ IF io.calWrite
         THEN /\ calFile' = loc[p].cal
              /\ loc' = [loc EXCEPT ![p].wrote = loc[p].wrote \/ calFile' # calFile]
              /\ pc' = [pc EXCEPT ![p] = "save_clear"]
              /\ result' = NoResult
              /\ UNCHANGED prev
         ELSE \* lines 273-274: RuntimeError, which nothing up to the caller catches
              /\ result' = LateResult(p, "SaveFailed", FALSE, <<>>, <<>>)
              /\ prev' = NoPrev
              /\ pc' = [pc EXCEPT ![p] = "idle"]
              /\ loc' = [loc EXCEPT ![p] = NoLoc]
              /\ UNCHANGED calFile
    /\ UNCHANGED <<calCache, bookFile, bookCache, now, confirmed, admitted>>

\* a save that leaves the caches as they are
save_clear_keep(p) ==
    /\ result = NoResult
    /\ UNCHANGED <<io, probe>>
    /\ pc[p] = "save_clear"
    /\ pc' = [pc EXCEPT ![p] = "record_load"]
    /\ result' = NoResult
    /\ UNCHANGED <<calFile, calCache, bookCache, bookFile, now, loc, prev, confirmed, admitted>>

\* _save_calendar, line 272: st.cache_data.clear() drops every cached file
save_clear(p) ==
    /\ result = NoResult
    /\ UNCHANGED <<io, probe>>
    /\ pc[p] = "save_clear"
    /\ calCache' = NoCache
    /\ bookCache' = NoCache
    /\ pc' = [pc EXCEPT ![p] = "record_load"]
    /\ result' = NoResult
    /\ UNCHANGED <<calFile, bookFile, now, loc, prev, confirmed, admitted>>

\* _append_booking_record, lines 457-468: load the log and append the record in memory
\* (the record's created_at timestamp is not kept: nothing reads it)
record_load(p) ==
    /\ result = NoResult
    /\ UNCHANGED <<io, probe>>
    /\ pc[p] = "record_load"
    /\ LET data == load_bookings
           end_time == _minutes_to_time(_time_to_minutes(loc[p].start) + loc[p].duration)
           rec == [date |-> loc[p].date, start |-> loc[p].start, end |-> end_time,
                   service |-> loc[p].service, duration_minutes |-> loc[p].duration,
                   client |-> p]
       IN  loc' = [loc EXCEPT ![p].data = Append(data, rec)]
    /\ bookCache' = BookCacheAfterLoad
    /\ pc' = [pc EXCEPT ![p] = "record_write"]
    /\ result' = NoResult
    /\ UNCHANGED <<calFile, calCache, bookFile, now, prev, confirmed, admitted>>

\* a log write whose failure takes the booked range out of the calendar again
record_write_rollback(p) ==
    /\ result = NoResult
    /\ UNCHANGED <<io, probe>>
    /\ pc[p] = "record_write"
    /\ IF io.bookWrite
         THEN /\ bookFile' = loc[p].data
              /\ loc' = [loc EXCEPT ![p].wrote = loc[p].wrote \/ bookFile' # bookFile]
              /\ pc' = [pc EXCEPT ![p] = "record_clear"]
              /\ result' = NoResult
              /\ UNCHANGED <<prev, calFile>>
         ELSE /\ result' = LateResult(p, "RecordFailed", FALSE, <<>>, <<>>)
              /\ prev' = NoPrev
              /\ pc' = [pc EXCEPT ![p] = "idle"]
              /\ loc' = [loc EXCEPT ![p] = NoLoc]
              /\ calFile' = [calFile EXCEPT ![loc[p].date] =
                                SelectSeq(calFile[loc[p].date], LAMBDA r : r[1] # loc[p].start)]
              /\ UNCHANGED bookFile
    /\ UNCHANGED <<calCache, bookCache, now, confirmed, admitted>>

\* _append_booking_record, lines 469-470: the whole log file is replaced
record_write(p) ==
    /\ result = NoResult
    /\ UNCHANGED <<io, probe>>
    /\ pc[p] = "record_write"
    /\ IF io.bookWrite
         THEN /\ bookFile' = loc[p].data
              /\ loc' = [loc EXCEPT ![p].wrote = loc[p].wrote \/ bookFile' # bookFile]
              /\ pc' = [pc EXCEPT ![p] = "record_clear"]
              /\ result' = NoResult
              /\ UNCHANGED prev
         ELSE \* the open of line 469 raises; book_appointment does not catch it
              /\ result' = LateResult(p, "RecordFailed", FALSE, <<>>, <<>>)
              /\ prev' = NoPrev
              /\ pc' = [pc EXCEPT ![p] = "idle"]
              /\ loc' = [loc EXCEPT ![p] = NoLoc]
              /\ UNCHANGED bookFile
    /\ UNCHANGED <<calFile, calCache, bookCache, now, confirmed, admitted>>

\* _append_booking_record line 471, then the return of lines 724-733
confirm(p) ==
    /\ result = NoResult
    /\ UNCHANGED <<io, probe>>
    /\ pc[p] = "record_clear"
    /\ calCache' = NoCache
    /\ bookCache' = NoCache
    /\ result' = LateResult(p, "Confirmation", FALSE, <<>>, <<>>)
    /\ prev' = PrevAfter("Confirmation", loc[p].date, loc[p].start, loc[p].service, calFile)
    /\ confirmed' = confirmed \cup {[session |-> p, date |-> loc[p].date, start |-> loc[p].start,
                                     service |-> loc[p].service]}
    /\ pc' = [pc EXCEPT ![p] = "idle"]
    /\ loc' = [loc EXCEPT ![p] = NoLoc]
    /\ UNCHANGED <<calFile, bookFile, now, admitted>>

\* lines 710-719: _append_appointment refused; availability is computed again
just_taken(p) ==
    /\ result = NoResult
    /\ UNCHANGED <<io, probe>>
    /\ pc[p] = "just_taken"
    /\ LET fresh == check_availability(IsoPhrase(loc[p].date), loc[p].service, 8, NoWindow,
                                       now, load_calendar)
           onFile == check_availability(IsoPhrase(loc[p].date), loc[p].service, 10000, NoWindow,
                                        now, calFile)
       IN  /\ result' = [LateResult(p, "JustTaken", TRUE, fresh.available, onFile.available)
                            EXCEPT !.readFailed = loc[p].readFailed \/ CalReadFails]
           /\ calCache' = IF fresh.kind = "ok" THEN CalCacheAfterLoad ELSE calCache
    /\ prev' = NoPrev
    /\ pc' = [pc EXCEPT ![p] = "idle"]
    /\ loc' = [loc EXCEPT ![p] = NoLoc]
    /\ UNCHANGED <<calFile, bookFile, bookCache, now, confirmed, admitted>>

-----------------------------------------------------------------------------
(* check_availability as a tool call, the caller, and the clock *)

\* a check_availability that writes an empty calendar file before it reads
tool_check_availability_reseed(p, date_phrases) ==
    /\ result = NoResult
    /\ UNCHANGED <<io, probe>>
    /\ pc[p] = "idle"
    /\ \E date_phrase \in date_phrases, service_name \in {NoService},
          limit \in Limits, daypart \in DaypartArgs :
         LET r == check_availability(date_phrase, service_name, limit, daypart, now, <<>>)
         IN  /\ result' =
                    [NoResult EXCEPT
                       !.tool = "check_availability", !.kind = r.kind,
                       !.date = r.date, !.service = service_name,
                       !.available = r.available, !.total_available = r.total_available,
                       !.argParsed = parse_natural_date(extract_daypart(date_phrase).clean, now) # NoDate]
    /\ calFile' = <<>>
    /\ calCache' = NoCache
    /\ UNCHANGED <<bookFile, bookCache, now, pc, loc, prev, confirmed, admitted>>

tool_check_availability(p, date_phrases) ==
    /\ result = NoResult
    /\ UNCHANGED <<io, probe>>
    /\ pc[p] = "idle"
    /\ \E date_phrase \in date_phrases, service_name \in {NoService},
          limit \in Limits, daypart \in DaypartArgs :
         LET r == check_availability(date_phrase, service_name, limit, daypart, now, load_calendar)
         IN  /\ result' =
                    [NoResult EXCEPT
                       !.tool = "check_availability", !.kind = r.kind,
                       !.date = r.date, !.service = service_name,
                       !.available = r.available, !.total_available = r.total_available,
                       !.argParsed = parse_natural_date(extract_daypart(date_phrase).clean, now) # NoDate,
                       !.readFailed = (r.kind = "ok" /\ CalReadFails)]
             /\ calCache' = IF r.kind = "ok" THEN CalCacheAfterLoad ELSE calCache
    /\ UNCHANGED <<calFile, bookFile, bookCache, now, pc, loc, prev, confirmed, admitted>>

\* get_hours as a tool call: it loads working_hours.json only (line 542);
\* hours holds the returned dictionary
tool_get_hours(p, date_phrases) ==
    /\ result = NoResult
    /\ UNCHANGED <<io, probe>>
    /\ pc[p] = "idle"
    /\ \E date_phrase \in date_phrases :
         LET r == get_hours(date_phrase, now)
         IN  result' = [NoResult EXCEPT !.tool = "get_hours", !.kind = r.kind, !.date = r.date,
                                        !.hours = r]
    /\ UNCHANGED <<calFile, calCache, bookFile, bookCache, now, pc, loc, prev, confirmed, admitted>>

\* the caller (call_tool, line 1200) takes the returned value
Return ==
    /\ result # NoResult
    /\ UNCHANGED <<io, probe>>
    /\ result' = NoResult
    /\ UNCHANGED <<calFile, calCache, bookFile, bookCache, now, pc, loc, prev, confirmed, admitted>>

\* now_in_salon_tz() moves forward
Tick ==
    /\ result = NoResult
    /\ UNCHANGED <<io, probe>>
    /\ \/ /\ \E m \in NowMins : m > now.min /\ now' = [now EXCEPT !.min = m]
       \/ /\ now.day < MaxNowDay
          /\ now' = [day |-> now.day + 1, min |-> 9 * 60]
    /\ result' = NoResult
    /\ UNCHANGED <<calFile, calCache, bookFile, bookCache, pc, loc, prev, confirmed, admitted>>

\* the environment: a file operation starts to fail (the file is damaged or
\* its permissions change); the except clauses of lines 258, 265, 273 and the
\* uncaught open of line 469 are where the engine meets it
Fault ==
    /\ result = NoResult
    /\ \E f \in DOMAIN io : io[f] /\ io' = [io EXCEPT ![f] = FALSE]
    /\ result' = NoResult
    /\ UNCHANGED <<calFile, calCache, bookFile, bookCache, now, pc, loc, prev, confirmed, admitted,
                   probe>>

-----------------------------------------------------------------------------
(* Direct applications of the engine's functions *)

Rng(h1, m1, h2, m2) == <<<<h1, m1>>, <<h2, m2>>>>

\* a range string without a "-": the split of lines 370, 389 raises and the range is skipped
BadRange == << <<10, 0>> >>

\* working-hour lists: one range, two ranges, a range shorter than any service,
\* none, and a list with a malformed entry
ProbeRanges ==
    {<<Rng(10, 0, 11, 15)>>, <<Rng(9, 0, 9, 40), Rng(10, 0, 10, 45)>>, <<Rng(10, 0, 10, 15)>>,
     <<>>, <<BadRange, Rng(11, 30, 12, 15)>>}

\* booked lists for a date
ProbeTaken ==
    {<<>>, <<Rng(10, 0, 10, 30)>>, <<Rng(10, 15, 11, 0)>>,
     <<Rng(9, 0, 9, 30), Rng(10, 30, 10, 45)>>, <<BadRange, Rng(10, 45, 11, 15)>>}

ProbeDurations == {20, 30, 45}

ProbeIntervals == {10, 15}

\* "today", "tomorrow", ISO dates (open, open, closed), "wed", "sat", "asdf",
\* "today afternoon", "morning", "tomorrow morning", and the ISO dates whose
\* ranges are listed out of order (8) or overlap (14)
ProbePhrases ==
    {Phrase("today", 0, "none"), Phrase("tomorrow", 0, "none"),
     Phrase("iso", 0, "none"), Phrase("iso", 1, "none"), Phrase("iso", 2, "none"),
     Phrase("iso", 8, "none"), Phrase("iso", 14, "none"),
     Phrase("weekday", 2, "none"), Phrase("weekday", 5, "none"), Phrase("junk", 0, "none"),
     Phrase("today", 0, "afternoon"), Phrase("empty", 0, "morning"),
     Phrase("tomorrow", 0, "morning")}

ProbeLimits == {0 - 1, 0, 1, 2, 8, 20}

\* daypart arguments: none, the afternoon, and a window inside the open hours
ProbeDayparts == {NoWindow, DAYPARTS["afternoon"], Rng(10, 15, 11, 0)}

ProbeNowMins == {9 * 60, 10 * 60 + 40, 11 * 60 + 30}

ProbeCalendars ==
    {<<>>, (0 :> <<Rng(10, 0, 10, 30)>>), (1 :> <<Rng(10, 15, 11, 0)>>)}

probe_subtract_appointments ==
    /\ result = NoResult /\ probe = NoProbe
    /\ \E ranges \in ProbeRanges, taken_ranges \in ProbeTaken, service_min \in ProbeDurations :
         LET slots == _expand_ranges_to_slots(ranges, slot_interval_minutes, service_min)
         IN  probe' = [fn |-> "_subtract_appointments",
                       arg |-> [slots |-> slots, taken_ranges |-> taken_ranges,
                                service_min |-> service_min],
                       out |-> _subtract_appointments(slots, taken_ranges, service_min)]
    /\ UNCHANGED <<calFile, calCache, bookFile, bookCache, now, pc, loc, result, prev, confirmed,
                   admitted, io>>

probe_expand_ranges_to_slots ==
    /\ result = NoResult /\ probe = NoProbe
    /\ \E ranges \in ProbeRanges, slot_interval \in ProbeIntervals, service_min \in ProbeDurations :
         probe' = [fn |-> "_expand_ranges_to_slots",
                   arg |-> [ranges |-> ranges, slot_interval |-> slot_interval,
                            service_min |-> service_min],
                   out |-> _expand_ranges_to_slots(ranges, slot_interval, service_min)]
    /\ UNCHANGED <<calFile, calCache, bookFile, bookCache, now, pc, loc, result, prev, confirmed,
                   admitted, io>>

probe_check_availability ==
    /\ result = NoResult /\ probe = NoProbe
    /\ \E date_phrase \in ProbePhrases, service_name \in ServiceNames, limit \in ProbeLimits,
          daypart \in ProbeDayparts, day \in 0..MaxNowDay, min \in ProbeNowMins,
          cal \in ProbeCalendars :
         LET anchor == [day |-> day, min |-> min]
         IN  probe' = [fn |-> "check_availability",
                       arg |-> [date_phrase |-> date_phrase, service_name |-> service_name,
                                limit |-> limit, daypart |-> daypart, anchor |-> anchor,
                                cal |-> cal],
                       out |-> check_availability(date_phrase, service_name, limit, daypart,
                                                  anchor, cal)]
    /\ UNCHANGED <<calFile, calCache, bookFile, bookCache, now, pc, loc, result, prev, confirmed,
                   admitted, io>>

\* date phrases for get_hours: "", "asdf", "today", "tomorrow afternoon", and
\* ISO dates of every kind of day: open by weekly hours (0, 5), closed by an
\* empty override (2), without weekly hours (3), with empty weekly hours (6),
\* and with the overrides of days 8, 9 and 13
HoursPhrases ==
    {Phrase("empty", 0, "none"), Phrase("junk", 0, "none"), Phrase("today", 0, "none"),
     Phrase("tomorrow", 0, "afternoon")}
    \cup {Phrase("iso", d, "none") : d \in {0, 2, 3, 5, 6, 8, 9, 13}}

probe_get_hours ==
    /\ result = NoResult /\ probe = NoProbe
    /\ \E date_phrase \in HoursPhrases, day \in 0..MaxNowDay, min \in ProbeNowMins :
         LET anchor == [day |-> day, min |-> min]
         IN  probe' = [fn |-> "get_hours",
                       arg |-> [date_phrase |-> date_phrase, anchor |-> anchor],
                       out |-> get_hours(date_phrase, anchor)]
    /\ UNCHANGED <<calFile, calCache, bookFile, bookCache, now, pc, loc, result, prev, confirmed,
                   admitted, io>>

\* time strings: all digits ("9", "13", "930"), H:MM with hours up to 25 and
\* minutes up to 60, and a string of neither shape, each bare, with am, or with pm
ProbeRawTimes ==
    {Raw("digits", h, 0, ap) : h \in (0..25) \cup {930}, ap \in {"none", "am", "pm"}}
    \cup {Raw("hm", h, m, ap) : h \in 0..25, m \in 0..60, ap \in {"none", "am", "pm"}}
    \cup {Raw("malformed", 0, 0, ap) : ap \in {"none", "am", "pm"}}

probe_normalize_time_to_hhmm ==
    /\ result = NoResult /\ probe = NoProbe
    /\ \E s \in ProbeRawTimes :
         probe' = [fn |-> "_normalize_time_to_hhmm", arg |-> s, out |-> _normalize_time_to_hhmm(s)]
    /\ UNCHANGED <<calFile, calCache, bookFile, bookCache, now, pc, loc, result, prev, confirmed,
                   admitted, io>>

\* date phrases: every weekday bare and after "next", "today", "tomorrow",
\* "asdf", and a weekday with a daypart word left in
ProbeDatePhrases ==
    {Phrase("weekday", w, "none") : w \in 0..6}
    \cup {Phrase("next", w, "none") : w \in 0..6}
    \cup {Phrase("today", 0, "none"), Phrase("tomorrow", 0, "none"), Phrase("junk", 0, "none"),
          Phrase("weekday", 0, "morning")}

\* anchors on each of the seven weekdays
ProbeAnchorDays == 0..(MaxNowDay + 5)

probe_parse_natural_date ==
    /\ result = NoResult /\ probe = NoProbe
    /\ \E phrase \in ProbeDatePhrases, day \in ProbeAnchorDays, min \in ProbeNowMins :
         LET anchor == [day |-> day, min |-> min]
         IN  probe' = [fn |-> "parse_natural_date",
                       arg |-> [phrase |-> phrase, anchor |-> anchor],
                       out |-> parse_natural_date(phrase, anchor)]
    /\ UNCHANGED <<calFile, calCache, bookFile, bookCache, now, pc, loc, result, prev, confirmed,
                   admitted, io>>

\* the value is dropped by its caller
probe_done ==
    /\ probe # NoProbe
    /\ probe' = NoProbe
    /\ UNCHANGED <<calFile, calCache, bookFile, bookCache, now, pc, loc, result, prev, confirmed,
                   admitted, io>>

-----------------------------------------------------------------------------
(* Specifications *)

SessionStep(p, date_args, start_times, service_names) ==
    \/ book_appointment(p, date_args, start_times, service_names)
    \/ collision_check(p)
    \/ append(p)
    \/ save_write(p)
    \/ save_clear(p)
    \/ record_load(p)
    \/ record_write(p)
    \/ confirm(p)
    \/ just_taken(p)
    \/ tool_check_availability(p, date_args)

\* sessions run concurrently: any interleaving of their steps
Next == Tick \/ Return \/ \E p \in Sessions : SessionStep(p, RacePhrases, RaceTimes, RaceServices)

Spec == Init /\ [][Next]_vars

\* sessions run concurrently and book on different dates
NextDates ==
    Return \/ \E p \in Sessions : SessionStep(p, TwoDatePhrases, TwoDateTimes, RaceServices)

SpecDates == Init /\ [][NextDates]_vars

\* tool calls executed one at a time: each call runs to its return before the
\* next one starts (the engine keeps no per-session state, so one caller stands for all)
NextSeq ==
    \/ Tick
    \/ Return
    \/ (pc["s2"] = "idle" /\ SessionStep("s1", Phrases, RawTimes, ServiceNames))
    \/ (pc["s2"] = "idle" /\ tool_get_hours("s1", ToolHoursPhrases))

SpecSeq == Init /\ [][NextSeq]_vars

\* tool calls executed one at a time while file operations may start to fail
NextFault ==
    Fault \/ Return \/ (pc["s2"] = "idle" /\ SessionStep("s1", RacePhrases, RaceTimes, FaultServices))

SpecFault == Init /\ [][NextFault]_vars

\* the engine's functions applied to arguments of every kind
NextPure ==
    \/ probe_subtract_appointments
    \/ probe_expand_ranges_to_slots
    \/ probe_check_availability
    \/ probe_get_hours
    \/ probe_normalize_time_to_hhmm
    \/ probe_parse_natural_date
    \/ probe_done

SpecPure == Init /\ [][NextPure]_vars

-----------------------------------------------------------------------------
(* Claims *)

RangeStart(r) == _time_to_minutes(r[1])
RangeEnd(r) == _time_to_minutes(r[2])

Rejections == {"BadTimeFormat", "Closed", "SlotUnavailable", "JustTaken"}

IsBookResult == result.tool = "book_appointment"

\* C1: with bookings for one date running concurrently, calendar.json never
\* holds two ranges of a date with s1 < e2 and e1 > s2.
C1_NoOverlapUnderRaces ==
    \A d \in DOMAIN calFile : \A i, j \in 1..Len(calFile[d]) :
        i # j => ~(RangeStart(calFile[d][i]) < RangeEnd(calFile[d][j])
                   /\ RangeEnd(calFile[d][i]) > RangeStart(calFile[d][j]))

\* C2: a (date, start, service) is confirmed to at most one of the sessions
\* that ask for it.
C2_OneConfirmationPerSlot ==
    \A a, b \in confirmed :
        (a.date = b.date /\ a.start = b.start /\ a.service = b.service) => a.session = b.session

Overlapping(r1, r2) == RangeStart(r1) < RangeEnd(r2) /\ RangeEnd(r1) > RangeStart(r2)

\* C3: with calls executed one at a time from a calendar without overlaps, no
\* date's list ever holds two overlapping ranges, whatever the starts and services.
C3_NoOverlapSequential ==
    \A d \in DOMAIN calFile :
        ~\E i, j \in 1..Len(calFile[d]) : i < j /\ Overlapping(calFile[d][i], calFile[d][j])

\* C3 witness: a date holds two ranges of different durations, back to back.
C3_Witness ==
    /\ pc["s1"] = "idle"
    /\ 0 \in DOMAIN calFile
    /\ Len(calFile[0]) = 2
    /\ RangeEnd(calFile[0][1]) = RangeStart(calFile[0][2])
    /\ RangeEnd(calFile[0][1]) - RangeStart(calFile[0][1])
         # RangeEnd(calFile[0][2]) - RangeStart(calFile[0][2])

\* C4: a booking that repeats the (date, start, service) of the Confirmation
\* returned just before it is rejected as slot not available, and the date's
\* stored list is the one the first booking left.
C4_RepeatIsRejected ==
    (IsBookResult /\ result.repeat) => (result.kind = "SlotUnavailable" /\ result.sameStored)

\* C4 witness: such a repeated booking has returned.
C4_Witness ==
    /\ IsBookResult /\ result.repeat
    /\ result.kind = "SlotUnavailable"
    /\ <<result.start, _minutes_to_time(_time_to_minutes(result.start) + _get_service_minutes(result.service))>>
         \in {calFile[result.date][i] : i \in 1..Len(calFile[result.date])}

\* C5: a Confirmation is returned only for a start that is in the available
\* list of the re-check; when the re-check produced a list (the day is not
\* closed) and the normalised start is not in it, the result is the slot not
\* available rejection and its alternatives are the first 10 of that list.
C5_ConfirmOnlyIfAvailable ==
    IsBookResult =>
        /\ result.kind = "Confirmation" =>
               (result.checked = "ok" /\ InSeq(result.start, result.free))
        /\ (result.start # NoTime /\ result.checked \in {"ok", "error"}
              /\ ~InSeq(result.start, result.free)) =>
               /\ result.kind = "SlotUnavailable"
               /\ result.hasAlt
               /\ result.alternatives = SubSeq(result.free, 1, IF Len(result.free) < 10
                                                                 THEN Len(result.free) ELSE 10)

\* C5 witness: a rejection that offers alternatives, none of them the requested start.
C5_Witness ==
    /\ IsBookResult /\ result.kind = "SlotUnavailable"
    /\ result.checked = "ok"
    /\ result.alternatives # <<>>
    /\ ~InSeq(result.start, result.free)

\* C6: every rejection carries alternatives, and they are the availability
\* computed from the calendar as it is after the failed attempt.
C6_RejectionHasFreshAlternatives ==
    (IsBookResult /\ result.kind \in Rejections) => (result.hasAlt /\ result.altFresh)

\* C7: no step of a call that ends in a rejection changes calendar.json or
\* bookings.json.
C7_RejectionWritesNothing ==
    (IsBookResult /\ result.kind \in Rejections) => ~result.wrote

\* C7 witness: a call rejected inside _append_appointment, after another
\* session's range reached the file.
C7_Witness ==
    /\ IsBookResult /\ result.kind = "JustTaken"
    /\ ~result.wrote
    /\ appts_get(calFile, result.date) # <<>>

\* the date has no open ranges: an empty exception list, or no exception and
\* empty or missing weekly hours
ClosedDay(d) ==
    IF d \in DOMAIN exceptions
      THEN exceptions[d] = <<>>
      ELSE \/ WEEKDAY_NAMES[(d % 7) + 1] \notin DOMAIN weekly_hours
           \/ weekly_hours[WEEKDAY_NAMES[(d % 7) + 1]] = <<>>

\* C8 as stated: a date that resolves to a closed day is rejected as closed,
\* for every start time and service.
C8_ClosedForEveryStart ==
    (IsBookResult /\ result.resolved # NoDate /\ ClosedDay(result.resolved))
        => result.kind = "Closed"

\* C8 amended: a date that resolves to a closed day is rejected as closed, for
\* every start time that normalises to HH:MM and every service.
C8_ClosedForEveryValidStart ==
    (IsBookResult /\ result.resolved # NoDate /\ ClosedDay(result.resolved)
       /\ result.start # NoTime)
        => result.kind = "Closed"

\* C8 witness: a booking on the date closed by an empty exception list.
C8_Witness ==
    /\ IsBookResult /\ result.kind = "Closed"
    /\ result.resolved \in DOMAIN exceptions
    /\ result.start # NoTime

\* C9: for a date phrase the normaliser does not parse, check_availability
\* returns the error result with no available slots.
C9_UnparsedPhraseIsError ==
    (result.tool = "check_availability" /\ ~result.argParsed)
        => (result.kind = "error" /\ result.available = <<>>)

\* C10: when the date argument cannot be parsed (and the start time is
\* well-formed), the result is of a kind of its own, neither the slot not
\* available nor the closed nor the bad time format result, nor a Confirmation.
C10_ParseErrorIsDistinct ==
    (IsBookResult /\ ~result.argParsed /\ result.start # NoTime)
        => result.kind \notin (Rejections \cup {"Confirmation"})

\* the exceptions that leave a call and reach the caller
HardErrors == {"SaveFailed", "RecordFailed"}

\* C11: a call in which a read of the calendar store failed ends in a hard
\* error: it returns no availability, no rejection and no Confirmation, and it
\* has not written calendar.json.
C11_UnreadableCalendarIsHardError ==
    (result.tool \in {"check_availability", "book_appointment"} /\ result.readFailed)
        => (result.kind \in HardErrors /\ ~result.wrote)

\* the ranges stored for a date, as a set
StoredRanges(appts, d) == {appts_get(appts, d)[i] : i \in 1..Len(appts_get(appts, d))}

\* C12: whenever bookings.json changes, the record appended last has the date,
\* start and end of a range that is in calendar.json at that moment (the
\* calendar write came first); a call that ends in a rejection or in a failed
\* calendar write has appended nothing.
C12_RecordAfterCalendarWrite ==
    /\ [][bookFile' # bookFile =>
            /\ bookFile' # <<>>
            /\ LET rec == bookFile'[Len(bookFile')]
               IN  <<rec.start, rec.end>> \in StoredRanges(calFile, rec.date)]_vars
    /\ []((IsBookResult /\ result.kind \in (Rejections \cup {"SaveFailed"})) => ~result.wrote)

\* C12 witness: a call whose calendar write failed has returned, with a
\* record of an earlier booking in the log.
C12_Witness ==
    /\ IsBookResult /\ result.kind = "SaveFailed"
    /\ Len(bookFile) = 1
    /\ <<bookFile[1].start, bookFile[1].end>> \in StoredRanges(calFile, bookFile[1].date)
    /\ <<result.start, _minutes_to_time(_time_to_minutes(result.start) + _get_service_minutes(result.service))>>
          \notin StoredRanges(calFile, result.date)

\* the range a book_appointment result is about
ResultRange ==
    <<result.start,
      _minutes_to_time(_time_to_minutes(result.start) + _get_service_minutes(result.service))>>

\* C13: when the write of the booking record fails after the calendar write,
\* the booked range stays in calendar.json and, the calendar being readable,
\* check_availability offers no start for that date whose service interval
\* overlaps it, whatever the service.
C13_LogFailureKeepsBooking ==
    (IsBookResult /\ result.kind = "RecordFailed" /\ io.calRead) =>
        /\ ResultRange \in StoredRanges(calFile, result.date)
        /\ \A service_name \in ServiceNames :
             LET offered == check_availability(IsoPhrase(result.date), service_name, 10000,
                                               NoWindow, now, load_calendar).available
                 dur == _get_service_minutes(service_name)
             IN  \A i \in 1..Len(offered) :
                    ~(_time_to_minutes(offered[i]) < RangeEnd(ResultRange)
                      /\ _time_to_minutes(offered[i]) + dur > RangeStart(ResultRange))

\* C13 witness: the log write failed for a booking whose range is on file,
\* on a date that still has a free start.
C13_Witness ==
    /\ IsBookResult /\ result.kind = "RecordFailed" /\ io.calRead
    /\ ResultRange \in StoredRanges(calFile, result.date)
    /\ bookFile = <<>>
    /\ check_availability(IsoPhrase(result.date), result.service, 10000,
                          NoWindow, now, load_calendar).available # <<>>

\* the range of a confirmed booking
BookedRange(c) ==
    <<c.start, _minutes_to_time(_time_to_minutes(c.start) + _get_service_minutes(c.service))>>

Mins(t) == t[1] * 60 + t[2]

\* the start s with duration d overlaps a well-formed range of the list
Overlaps(s, d, taken) ==
    \E i \in 1..Len(taken) :
        /\ Len(taken[i]) = 2
        /\ Mins(s) < Mins(taken[i][2])
        /\ Mins(s) + d > Mins(taken[i][1])

\* C15: _subtract_appointments removes a candidate s exactly when a booked
\* range [rs, re) has s < re and s + d > rs, and keeps the others in order;
\* with 10:00-10:30 booked, step 15 and duration 30, the first start left
\* from 10:00 on is 10:30.
C15_ConflictFilterExact ==
    probe.fn = "_subtract_appointments" =>
        LET Kept(s) == ~Overlaps(s, probe.arg.service_min, probe.arg.taken_ranges)
        IN  /\ probe.out = SelectSeq(probe.arg.slots, Kept)
            /\ (/\ probe.arg.taken_ranges = << <<<<10, 0>>, <<10, 30>>>> >>
                /\ probe.arg.service_min = 30
                /\ probe.arg.slots # <<>> /\ probe.arg.slots[1] = <<10, 0>>
                /\ Len(probe.arg.slots) >= 3)
               => probe.out[1] = <<10, 30>>

\* C15 witness: the scenario of the claim: 10:00 and 10:15 removed, 10:30
\* (starting where the booked range ends) first.
C15_Witness ==
    /\ probe.fn = "_subtract_appointments"
    /\ probe.arg.taken_ranges = << <<<<10, 0>>, <<10, 30>>>> >>
    /\ probe.arg.service_min = 30
    /\ Len(probe.arg.slots) >= 3
    /\ probe.arg.slots[1] = <<10, 0>> /\ probe.arg.slots[2] = <<10, 15>>
    /\ probe.out # <<>> /\ probe.out[1] = <<10, 30>>

\* the well-formed ranges of a list
WellFormed(ranges) == {ranges[i] : i \in {j \in 1..Len(ranges) : Len(ranges[j]) = 2}}

\* C16: every start that _expand_ranges_to_slots emits lies in one of the
\* ranges [a, b) with a <= s, s - a a multiple of the step and
\* s + duration <= b; when the duration exceeds every range the output is
\* the empty list.
C16_SlotsStayInsideRange ==
    probe.fn = "_expand_ranges_to_slots" =>
        LET d == probe.arg.service_min
            step == probe.arg.slot_interval
            R == WellFormed(probe.arg.ranges)
        IN  /\ \A i \in 1..Len(probe.out) :
                  \E r \in R :
                      /\ Mins(r[1]) <= Mins(probe.out[i])
                      /\ (Mins(probe.out[i]) - Mins(r[1])) % step = 0
                      /\ Mins(probe.out[i]) + d <= Mins(r[2])
            /\ (\A r \in R : Mins(r[2]) - Mins(r[1]) < d) => probe.out = <<>>

\* C16 witness: two ranges, the first too short for the service, the second
\* giving starts up to the one that ends at its close.
C16_Witness ==
    /\ probe.fn = "_expand_ranges_to_slots"
    /\ Len(probe.arg.ranges) = 2
    /\ probe.arg.service_min = 45
    /\ probe.out = << <<10, 0>> >>

\* the open ranges of a date: the exception list if there is one, else the weekly list
OpenRanges(d) ==
    IF d \in DOMAIN exceptions THEN exceptions[d]
    ELSE IF WEEKDAY_NAMES[(d % 7) + 1] \in DOMAIN weekly_hours
      THEN weekly_hours[WEEKDAY_NAMES[(d % 7) + 1]]
      ELSE <<>>

\* the starts a, a + step, ... whose service ends by b
Grid(a, b, step, d) ==
    LET n == IF b - a >= d THEN ((b - a - d) \div step) + 1 ELSE 0
    IN  [k \in 1..n |-> <<(a + (k - 1) * step) \div 60, (a + (k - 1) * step) % 60>>]

\* the window that applies to a call: the explicit one, else the one in the phrase
WindowOf(arg) ==
    IF arg.daypart # NoWindow THEN arg.daypart
    ELSE IF arg.date_phrase.dp # "none" THEN DAYPARTS[arg.date_phrase.dp]
    ELSE NoWindow

\* C17: for a date after today with a single open range [a, b), nothing
\* booked on it, no daypart and a limit that is large enough,
\* check_availability returns exactly a, a + step, ... up to the last start
\* with start + duration <= b, ascending, and total_available is their count.
C17_FullGridOnFreeDay ==
    (/\ probe.fn = "check_availability"
     /\ probe.out.kind = "ok"
     /\ probe.out.date > probe.arg.anchor.day
     /\ Len(OpenRanges(probe.out.date)) = 1
     /\ appts_get(probe.arg.cal, probe.out.date) = <<>>
     /\ WindowOf(probe.arg) = NoWindow) =>
        LET r == OpenRanges(probe.out.date)[1]
            expected == Grid(Mins(r[1]), Mins(r[2]), slot_interval_minutes,
                             services[probe.arg.service_name])
        IN  /\ probe.out.total_available = Len(expected)
            /\ probe.arg.limit >= Len(expected) => probe.out.available = expected

\* C17 witness: "sat", 10:00-14:00, step 15, 30 minutes: 10:00 through 13:30, total 15.
C17_Witness ==
    /\ probe.fn = "check_availability"
    /\ probe.out.kind = "ok"
    /\ probe.out.date > probe.arg.anchor.day
    /\ appts_get(probe.arg.cal, probe.out.date) = <<>>
    /\ WindowOf(probe.arg) = NoWindow
    /\ OpenRanges(probe.out.date) = << <<<<10, 0>>, <<14, 0>>>> >>
    /\ probe.arg.service_name = "cut"
    /\ Len(probe.out.available) = 15
    /\ probe.out.available[1] = <<10, 0>> /\ probe.out.available[2] = <<10, 15>>
    /\ probe.out.available[15] = <<13, 30>>
    /\ probe.out.total_available = 15

IsOkProbe == probe.fn = "check_availability" /\ probe.out.kind = "ok"

\* C18: in every result with slots computed, for every limit (0 and negative
\* included), available is the first max(1, limit) elements of the filtered
\* list, total_available is the length of that list, and
\* Len(available) = min(total_available, max(1, limit)).
C18_LimitFloorsAtOne ==
    IsOkProbe =>
        LET n == IF probe.arg.limit > 1 THEN probe.arg.limit ELSE 1
            full == probe.out.free_slots
            k == IF Len(full) < n THEN Len(full) ELSE n
        IN  /\ probe.out.available = [i \in 1..k |-> full[i]]
            /\ probe.out.total_available = Len(full)
            /\ Len(probe.out.available) = k

\* C18 witness: a limit below 1 with several slots free: one is returned.
C18_Witness ==
    /\ IsOkProbe
    /\ probe.arg.limit < 1
    /\ probe.out.total_available >= 2
    /\ Len(probe.out.available) = 1
    /\ probe.out.available[1] = probe.out.free_slots[1]

\* the availability of the same call with no daypart at all
WithoutDaypart(arg) ==
    check_availability([arg.date_phrase EXCEPT !.dp = "none"], arg.service_name, arg.limit,
                       NoWindow, arg.anchor, arg.cal)

SeenFromAnotherDay(arg, date) ==
    check_availability([form |-> "iso", arg |-> date, dp |-> arg.date_phrase.dp],
                       arg.service_name, arg.limit, arg.daypart,
                       [day |-> date + 1, min |-> 0], arg.cal)

\* C20: when the date is today, a free candidate is kept iff its start plus
\* the service duration is later than the current minute; when the date is
\* not today the clock removes nothing.
C20_TodayFilterExact ==
    IsOkProbe =>
        LET d == services[probe.arg.service_name]
            candidates == SeenFromAnotherDay(probe.arg, probe.out.date).free_slots
            Future(s) == Mins(s) + d > probe.arg.anchor.min
        IN  IF probe.out.date = probe.arg.anchor.day
              THEN probe.out.free_slots = SelectSeq(candidates, Future)
              ELSE probe.out.free_slots = candidates

\* C20 witness: today at 10:40: the 10:15 start of a 30 minute service is
\* kept (it ends at 10:45) and the earlier start is dropped.
C20_Witness ==
    /\ IsOkProbe
    /\ probe.out.date = probe.arg.anchor.day
    /\ probe.arg.anchor.min = 10 * 60 + 40
    /\ probe.arg.service_name = "cut"
    /\ probe.out.free_slots # <<>> /\ probe.out.free_slots[1] = <<10, 15>>
    /\ SeenFromAnotherDay(probe.arg, probe.out.date).free_slots[1] = <<10, 0>>

\* C21: get_hours reports closed iff the applicable list (the exceptions
\* entry when the date is a key of exceptions, even an empty one, else the
\* weekly entry of its weekday) is empty or absent; when open it reports that
\* list; check_availability reports closed for exactly the same dates.
C21_ClosedIffNoRanges ==
    (probe.fn = "get_hours" /\ probe.out.kind # "error") =>
        LET d == probe.out.date
            avail == check_availability([form |-> "iso", arg |-> d, dp |-> "none"], "cut", 8,
                                        NoWindow, probe.arg.anchor, <<>>)
        IN  /\ probe.out.closed <=> OpenRanges(d) = <<>>
            /\ probe.out.ranges = OpenRanges(d)
            /\ (avail.kind = "closed") <=> OpenRanges(d) = <<>>

\* C21 witness: a Wednesday with weekly hours, closed by an empty exception entry.
C21_Witness ==
    /\ probe.fn = "get_hours"
    /\ probe.out.kind = "closed" /\ probe.out.closed
    /\ probe.out.date \in DOMAIN exceptions
    /\ weekly_hours[WEEKDAY_NAMES[(probe.out.date % 7) + 1]] # <<>>

\* C22: on an open day get_hours returns all the ranges, opening is the
\* earliest start and closing the latest end over the well-formed ranges; a
\* malformed range is skipped.
C22_OpeningAndClosing ==
    (probe.fn = "get_hours" /\ probe.out.kind = "open") =>
        LET W == WellFormed(probe.out.ranges)
        IN  /\ probe.out.ranges = OpenRanges(probe.out.date)
            /\ W # {} =>
                 /\ probe.out.opening # NoTime
                 /\ probe.out.closing # NoTime
                 /\ \E r \in W : probe.out.opening = r[1]
                 /\ \E r \in W : probe.out.closing = r[2]
                 /\ \A r \in W : /\ Mins(probe.out.opening) <= Mins(r[1])
                                 /\ Mins(probe.out.closing) >= Mins(r[2])

\* C23: when a Confirmation is returned, the list stored for the booked date
\* holds the new range exactly once, holds no range twice, and is in
\* ascending order of start time, whatever the order of the bookings.
C23_StoredListSortedAndUnique ==
    (IsBookResult /\ result.kind = "Confirmation") =>
        LET L == appts_get(calFile, result.date)
        IN  /\ Cardinality({i \in 1..Len(L) : L[i] = ResultRange}) = 1
            /\ \A i, j \in 1..Len(L) : i # j => L[i] # L[j]
            /\ \A i, j \in 1..Len(L) : i < j => Mins(L[i][1]) <= Mins(L[j][1])

\* C23 witness: the range booked last starts before the one booked first and
\* is stored in front of it.
C23_Witness ==
    /\ IsBookResult /\ result.kind = "Confirmation"
    /\ Len(appts_get(calFile, result.date)) = 2
    /\ calFile[result.date][1] = ResultRange
    /\ Mins(calFile[result.date][2][1]) > Mins(result.start)

\* the service is configured with a duration of zero or less
NonPositive(service_name) == service_name \in DOMAIN services /\ services[service_name] <= 0

\* C24: for a service with a non-positive duration book_appointment never
\* returns a Confirmation and never writes a file, and check_availability
\* returns no slot list.
C24_NonPositiveDurationRejected ==
    /\ (IsBookResult /\ NonPositive(result.service))
          => (result.kind # "Confirmation" /\ ~result.wrote)
    /\ (result.tool = "check_availability" /\ NonPositive(result.service))
          => result.kind # "ok"

IsTimeProbe == probe.fn = "_normalize_time_to_hhmm"

\* the hour the claim assigns to an hour and a suffix
HourOf(h, ampm) ==
    IF ampm = "am" THEN (IF h = 12 THEN 0 ELSE h)
    ELSE IF ampm = "pm" THEN (IF h = 12 THEN 12 ELSE h + 12)
    ELSE h

Canonical(t) == [shape |-> "hm", h |-> t[1], m |-> t[2], ampm |-> "none"]

\* the 12-hour display of a time: "1:30 pm" for 13:30, "12am" for 00:00
Display12(t) ==
    [shape |-> IF t[2] = 0 THEN "digits" ELSE "hm",
     h |-> IF t[1] % 12 = 0 THEN 12 ELSE t[1] % 12,
     m |-> t[2],
     ampm |-> IF t[1] < 12 THEN "am" ELSE "pm"]

\* C26: every HH:MM the normaliser returns is returned unchanged when
\* normalised again, and is returned for its 12-hour am/pm display.
C26_NormalizeTimeRoundTrip ==
    (IsTimeProbe /\ probe.out # NoTime) =>
        /\ _normalize_time_to_hhmm(Canonical(probe.out)) = probe.out
        /\ _normalize_time_to_hhmm(Display12(probe.out)) = probe.out

\* C26 witness: 00:30, whose display is "12:30 am".
C26_Witness ==
    /\ IsTimeProbe
    /\ probe.out = <<0, 30>>
    /\ Display12(probe.out) = [shape |-> "hm", h |-> 12, m |-> 30, ampm |-> "am"]
    /\ _normalize_time_to_hhmm(Display12(probe.out)) = <<0, 30>>

IsDateProbe(form) ==
    /\ probe.fn = "parse_natural_date"
    /\ probe.arg.phrase.form = form
    /\ probe.arg.phrase.dp = "none"

\* C27: a bare weekday resolves to the date (target - anchor weekday) mod 7
\* days after the anchor: the first date on or after the anchor with that
\* weekday, the anchor date itself when the weekdays match.
C27_BareWeekdayOnOrAfter ==
    IsDateProbe("weekday") =>
        LET a == probe.arg.anchor.day
            t == probe.arg.phrase.arg
            out == probe.out
        IN  /\ out = a + ((t - WeekdayOf(a)) % 7)
            /\ out >= a
            /\ WeekdayOf(out) = t
            /\ \A d \in a..(out - 1) : WeekdayOf(d) # t
            /\ WeekdayOf(a) = t => out = a

\* C27 witness: "wed" asked on a Wednesday resolves to that day.
C27_Witness ==
    /\ IsDateProbe("weekday")
    /\ probe.arg.phrase.arg = 2
    /\ probe.arg.anchor.day = 2
    /\ probe.out = 2

\* C28 as stated: "next" + weekday resolves to a date at least 7 days after
\* the anchor, with the requested weekday, never the anchor date.
C28_NextWeekdayAtLeastAWeekOut ==
    IsDateProbe("next") =>
        LET a == probe.arg.anchor.day
            out == probe.out
        IN  /\ out - a >= 7
            /\ WeekdayOf(out) = probe.arg.phrase.arg
            /\ out # a

\* C28 amended: "next" + weekday resolves to the first date strictly after
\* the anchor with the requested weekday: (target - anchor weekday) mod 7 days
\* out, 7 when that is 0; between 1 and 7 days out, never the anchor date.
C28_NextWeekdayStrictlyAfter ==
    IsDateProbe("next") =>
        LET a == probe.arg.anchor.day
            t == probe.arg.phrase.arg
            out == probe.out
            dist == (t - WeekdayOf(a)) % 7
        IN  /\ out - a = (IF dist = 0 THEN 7 ELSE dist)
            /\ out - a \in 1..7
            /\ WeekdayOf(out) = t
            /\ \A d \in (a + 1)..(out - 1) : WeekdayOf(d) # t
            /\ out # a

\* C28 witness: "next tue" asked on a Monday resolves to the following day.
C28_Witness ==
    /\ IsDateProbe("next")
    /\ probe.arg.phrase.arg = 1
    /\ WeekdayOf(probe.arg.anchor.day) = 0
    /\ probe.out = probe.arg.anchor.day + 1

\* the phrase is "next mon" and the anchor is a Monday
IsNextMonOnMonday ==
    /\ IsDateProbe("next")
    /\ probe.arg.phrase.arg = 0
    /\ WeekdayOf(probe.arg.anchor.day) = 0

\* C29 as stated: "next Mon" with a Monday anchor resolves to the day eight
\* days after the anchor, never the anchor day.
C29_NextMonEightDaysLater ==
    IsNextMonOnMonday =>
        /\ probe.out = probe.arg.anchor.day + 8
        /\ probe.out # probe.arg.anchor.day

\* C29 amended: "next Mon" with a Monday anchor resolves to the Monday seven
\* days after the anchor, never the anchor day.
C29_NextMonSevenDaysLater ==
    IsNextMonOnMonday =>
        /\ probe.out = probe.arg.anchor.day + 7
        /\ WeekdayOf(probe.out) = 0
        /\ probe.out # probe.arg.anchor.day

\* C29 witness: "next mon" asked on Monday day 0 resolves to day 7.
C29_Witness ==
    /\ IsNextMonOnMonday
    /\ probe.arg.anchor.day = 0
    /\ probe.out = 7

\* C30: the interval of every Confirmation returned so far is in the stored
\* calendar, whatever other bookings ran since.
C30_ConfirmedIntervalStays ==
    \A c \in confirmed : BookedRange(c) \in StoredRanges(calFile, c.date)

\* the session whose step writes calendar.json
Writes(p) == pc[p] = "save_write" /\ pc'[p] # "save_write"

\* C31: a step of a book_appointment call for date X changes the stored list
\* of no other date, whatever bookings for other dates run at the same time.
C31_OtherDatesUntouched ==
    [][\A p \in Sessions : Writes(p) =>
          \A d \in (DOMAIN calFile \cup DOMAIN calFile') \ {loc[p].date} :
              appts_get(calFile', d) = appts_get(calFile, d)]_vars

\* C32: the booking log only grows at its end: every record written stays at
\* its place with its content, and the log holds a record for each
\* Confirmation returned so far.
C32_LogAppendOnly ==
    /\ [][/\ Len(bookFile') >= Len(bookFile)
          /\ \A i \in 1..Len(bookFile) : bookFile'[i] = bookFile[i]]_vars
    /\ [](Cardinality(confirmed) <= Len(bookFile))

\* C33: the available list of check_availability is in strictly ascending
\* order of start time, so no start appears twice, whatever the configured
\* ranges of the day.
C33_AvailableStrictlyAscending ==
    (probe.fn = "check_availability") =>
        \A i, j \in 1..Len(probe.out.available) :
            i < j => Mins(probe.out.available[i]) < Mins(probe.out.available[j])

\* the service interval that starts at start on date has ended at clock value anchor
Ended(date, start, duration, anchor) ==
    \/ date < anchor.day
    \/ date = anchor.day /\ Mins(start) + duration <= anchor.min

\* C34: check_availability offers no start whose service interval has ended
\* when the call reads the clock, and book_appointment accepts no such start
\* for storing, on today and on every earlier date.
C34_NothingInThePast ==
    /\ []((result.tool = "check_availability" /\ result.kind = "ok") =>
            \A i \in 1..Len(result.available) :
                ~Ended(result.date, result.available[i],
                       _get_service_minutes(result.service), now))
    /\ [][\A p \in Sessions :
            (pc[p] = "idle" /\ pc'[p] = "collision_check") =>
                ~Ended(loc'[p].date, loc'[p].start, loc'[p].duration, now)]_vars

\* C35: a check_availability or get_hours call, whatever it returns, leaves
\* the lists stored in calendar.json and the records of bookings.json as they
\* were.
C35_QueriesAreReadOnly ==
    [][(result.tool = "none" /\ result'.tool \in {"check_availability", "get_hours"}) =>
          (calFile' = calFile /\ bookFile' = bookFile)]_vars

\* C35 witness: get_hours has answered "closed" while both files hold a booking.
C35_Witness ==
    /\ result.tool = "get_hours"
    /\ result.kind = "closed"
    /\ calFile # <<>>
    /\ bookFile # <<>>

====
